---------------------------- MODULE Spec2Model ----------------------------
(***************************************************************************)
(* Model of the WKT decoder of encoding/wkt/decode.go.                     *)
(*                                                                         *)
(* A Go string is a sequence of one-character strings.  Positions are the  *)
(* 0-based byte offsets of the source (the model's alphabet is ASCII, so a *)
(* rune index of "range s" is a byte offset); -1 is the "not found" value. *)
(***************************************************************************)
EXTENDS Integers, Sequences, FiniteSets, TLC

VARIABLES
    wkt,      \* the text the operation under check is applied to
    layout,   \* the layout in force (an input of coordsFromBraceContent, or resolved by decode)
    typ,      \* the type keyword resolved by decode
    pc,       \* position of the call: "start", a loop of decode, or "done"
    content,  \* the text a sibling loop still has to consume
    acc,      \* what a sibling loop has collected so far
    result    \* what the operation returned

vars == <<wkt, layout, typ, pc, content, acc, result>>

---------------------------------------------------------------------------
(* Bounds of the checked input sets. *)

MaxBraceLen == 6

MaxContentLen == 5

MaxTuples == 2

MaxCoords == 3

MaxGroups == 2

MaxPolys == 2

MaxMembers == 2

MaxDepth == 3

---------------------------------------------------------------------------
(* Package strings, as far as decode.go uses it.                           *)
(*                                                                         *)
(* Throughout, the value of a call that the code binds to a variable is    *)
(* handed to a local operator as its parameter by With, so that the call   *)
(* is written, and evaluated, once.                                        *)

\* F(e), with e evaluated once and F applied to its value
With(e, F(_)) == CHOOSE r \in {F(x) : x \in {e}} : TRUE

\* s[from:to]
Slice(s, from, to) == SubSeq(s, from + 1, to)

\* s[from:]
SliceFrom(s, from) == SubSeq(s, from + 1, Len(s))

HasPrefix(s, p) == Len(s) >= Len(p) /\ SubSeq(s, 1, Len(p)) = p

HasSuffix(s, p) == Len(s) >= Len(p) /\ SubSeq(s, Len(s) - Len(p) + 1, Len(s)) = p

\* the least offset of a set of offsets, or -1 if there is none
First(offsets) ==
    IF offsets = {} THEN -1 ELSE CHOOSE i \in offsets : \A j \in offsets : i <= j

\* strings.Index(s, c) for a one-character c
Index(s, c) ==
    LET Among(str) == First({i - 1 : i \in {j \in 1..Len(str) : str[j] = c}})
    IN  With(s, Among)

\* strings.Split(s, c) for a one-character separator c
RECURSIVE Split(_, _)
Split(s, c) ==
    LET Cut(i) ==
            LET After(rest) == <<Slice(s, 0, i)>> \o Split(rest, c)
            IN  IF i < 0 THEN <<s>> ELSE With(SliceFrom(s, i + 1), After)
    IN  With(Index(s, c), Cut)

\* strings.TrimSpace(s); the blank is the only white space of the alphabet
RECURSIVE TrimSpace(_)
TrimSpace(s) ==
    IF s = <<>> THEN s
    ELSE IF Head(s) = " " THEN TrimSpace(Tail(s))
    ELSE IF s[Len(s)] = " " THEN TrimSpace(SubSeq(s, 1, Len(s) - 1))
    ELSE s

\* unicode.IsLetter(c)
Letters ==
    {"A", "B", "C", "D", "E", "F", "G", "H", "I", "J", "K", "L", "M",
     "N", "O", "P", "Q", "R", "S", "T", "U", "V", "W", "X", "Y", "Z"}

IsLetter(c) == c \in Letters

---------------------------------------------------------------------------
(* Errors: the kind, the text the message carries, and (dimension          *)
(* mismatch) the expected dimension.                                       *)

NoErr == [kind |-> "none", text |-> <<>>, dim |-> 0]

Err(k, t) == [kind |-> k, text |-> t, dim |-> 0]

---------------------------------------------------------------------------
(* The literals of the package: the type keywords, the layout modifiers    *)
(* and the empty marker.                                                   *)

tPoint == <<"P", "O", "I", "N", "T">>

tLineString == <<"L", "I", "N", "E", "S", "T", "R", "I", "N", "G">>

tPolygon == <<"P", "O", "L", "Y", "G", "O", "N">>

tMultiPoint == <<"M", "U", "L", "T", "I">> \o tPoint

tMultiLineString == <<"M", "U", "L", "T", "I">> \o tLineString

tMultiPolygon == <<"M", "U", "L", "T", "I">> \o tPolygon

tGeometryCollection ==
    <<"G", "E", "O", "M", "E", "T", "R", "Y",
      "C", "O", "L", "L", "E", "C", "T", "I", "O", "N">>

tZ == <<"Z">>

tM == <<"M">>

tZm == <<"Z", "M">>

tEmpty == <<"E", "M", "P", "T", "Y">>

\* geom.Layout.Stride
Stride(l) ==
    CASE l = "XY"   -> 2
      [] l = "XYZ"  -> 3
      [] l = "XYM"  -> 3
      [] l = "XYZM" -> 4
      [] OTHER      -> 0

Layouts == {"XY", "XYZ", "XYM", "XYZM"}

---------------------------------------------------------------------------
(* findTypeAndLayout *)

\* Variant of the second switch: the cases in the order Z, M, ZM.
FindLayoutZFirst(wkt0, typeString) ==
    IF HasPrefix(wkt0, typeString \o tZ) THEN "XYZ"
    ELSE IF HasPrefix(wkt0, typeString \o tM) THEN "XYM"
    ELSE IF HasPrefix(wkt0, typeString \o tZm) THEN "XYZM"
    ELSE "XY"

\* the second switch
FindLayout(wkt0, typeString) ==
    IF HasPrefix(wkt0, typeString \o tZm) THEN "XYZM"
    ELSE IF HasPrefix(wkt0, typeString \o tM) THEN "XYM"
    ELSE IF HasPrefix(wkt0, typeString \o tZ) THEN "XYZ"
    ELSE "XY"

\* the first switch; the empty text stands for its default case
FindType(wkt0) ==
    IF HasPrefix(wkt0, tPoint) THEN tPoint
    ELSE IF HasPrefix(wkt0, tLineString) THEN tLineString
    ELSE IF HasPrefix(wkt0, tPolygon) THEN tPolygon
    ELSE IF HasPrefix(wkt0, tMultiPoint) THEN tMultiPoint
    ELSE IF HasPrefix(wkt0, tMultiLineString) THEN tMultiLineString
    ELSE IF HasPrefix(wkt0, tMultiPolygon) THEN tMultiPolygon
    ELSE IF HasPrefix(wkt0, tGeometryCollection) THEN tGeometryCollection
    ELSE <<>>

FindTypeAndLayout(wkt0) ==
    LET Found(typeString) ==
            IF typeString = <<>>
            THEN [typ |-> <<>>, layout |-> "NoLayout", err |-> Err("UnknownType", wkt0)]
            ELSE [typ |-> typeString, layout |-> FindLayout(wkt0, typeString),
                  err |-> NoErr]
    IN  With(FindType(wkt0), Found)

---------------------------------------------------------------------------
(* coordsFromBraceContent *)

Digits == {"0", "1", "2", "3", "4", "5", "6", "7", "8", "9"}

DigitValue(c) ==
    CASE c = "0" -> 0 [] c = "1" -> 1 [] c = "2" -> 2 [] c = "3" -> 3 [] c = "4" -> 4
      [] c = "5" -> 5 [] c = "6" -> 6 [] c = "7" -> 7 [] c = "8" -> 8 [] c = "9" -> 9

RECURSIVE DecimalValue(_)
DecimalValue(val) ==
    IF val = <<>> THEN 0
    ELSE 10 * DecimalValue(SubSeq(val, 1, Len(val) - 1)) + DigitValue(val[Len(val)])

\* whether strconv.ParseFloat(val, 64) accepts val, for the tokens of the
\* model: a non-empty run of decimal digits is a number; the empty token and
\* a token with a letter, a blank or a brace are rejected.  Signs, fractions,
\* exponents, "inf" and "nan" are not in the tokens the checked inputs are
\* made of.
IsFloat(val) == val # <<>> /\ \A i \in 1..Len(val) : val[i] \in Digits

\* strconv.ParseFloat(val, 64): the number the digits spell (the tokens are
\* short enough for it to be exact as a float64)
ParseFloat(val) ==
    IF IsFloat(val) THEN [ok |-> TRUE, f |-> DecimalValue(val)]
    ELSE [ok |-> FALSE, f |-> 0]

\* The inner loop over the tokens of one tuple: coordVals, made with n zeros
\* and filled token by token, or the first token that is no number.
ParseOrdinates(coordElems, n) ==
    IF \E i \in 1..Len(coordElems) : ~IsFloat(coordElems[i])
    THEN [ok |-> FALSE, coordVals |-> <<>>,
          val |-> coordElems[CHOOSE i \in 1..Len(coordElems) :
                               /\ ~IsFloat(coordElems[i])
                               /\ \A j \in 1..(i - 1) : IsFloat(coordElems[j])]]
    ELSE [ok |-> TRUE, val |-> <<>>,
          coordVals |-> [i \in 1..n |->
                           IF i <= Len(coordElems) THEN ParseFloat(coordElems[i]).f ELSE 0]]

\* Variant of the loop body: the inner loop first, the count check after it.
ParseTupleNumbersFirst(coordElems, s, l) ==
    LET Parsed(parsed) ==
            IF ~parsed.ok
            THEN [coordVals |-> <<>>, err |-> Err("InvalidOrdinate", parsed.val)]
            ELSE IF Len(coordElems) # Stride(l)
            THEN [coordVals |-> <<>>,
                  err |-> [kind |-> "DimensionMismatch", text |-> s, dim |-> Stride(l)]]
            ELSE [coordVals |-> parsed.coordVals, err |-> NoErr]
    IN  With(ParseOrdinates(coordElems, Stride(l)), Parsed)

\* The body of the outer loop for the tokens of one tuple: the count check,
\* then the inner loop.
ParseTuple(coordElems, s, l) ==
    LET Parsed(parsed) ==
            IF ~parsed.ok
            THEN [coordVals |-> <<>>, err |-> Err("InvalidOrdinate", parsed.val)]
            ELSE [coordVals |-> parsed.coordVals, err |-> NoErr]
    IN  IF Len(coordElems) # Stride(l)
        THEN [coordVals |-> <<>>,
              err |-> [kind |-> "DimensionMismatch", text |-> s, dim |-> Stride(l)]]
        ELSE With(ParseOrdinates(coordElems, Stride(l)), Parsed)

\* The outer loop from tuple i on; a nil slice is the empty sequence.
RECURSIVE CoordsLoop(_, _, _, _, _)
CoordsLoop(coordStrings, i, coords, s, l) ==
    LET Done(p) ==
            IF p.err # NoErr THEN [coords |-> <<>>, err |-> p.err]
            ELSE CoordsLoop(coordStrings, i + 1, Append(coords, p.coordVals), s, l)
        Tuple(coordElems) == With(ParseTuple(coordElems, s, l), Done)
    IN  IF i > Len(coordStrings) THEN [coords |-> coords, err |-> NoErr]
        ELSE With(Split(TrimSpace(coordStrings[i]), " "), Tuple)

\* Variant of coordsFromBraceContent: the tuples are counted against the
\* stride of XY, whatever the layout.
CoordsFromBraceContentXY(s, l) ==
    LET Loop(coordStrings) == CoordsLoop(coordStrings, 1, <<>>, s, "XY")
    IN  With(Split(s, ","), Loop)

CoordsFromBraceContent(s, l) ==
    LET Loop(coordStrings) == CoordsLoop(coordStrings, 1, <<>>, s, l)
    IN  With(Split(s, ","), Loop)

---------------------------------------------------------------------------
(* braceContentAndRest *)

\* The scan loop, by what its counters hold: after the first i characters
\* braceOpenCount is the number of "(" among them and braceCloseCount the
\* number of ")" (each is only ever incremented, once per such character).
BraceOpenCount(s, i) == Cardinality({j \in 1..i : s[j] = "("})

BraceCloseCount(s, i) == Cardinality({j \in 1..i : s[j] = ")"})

\* the loop breaks at offset i: a ")" after which the two counters are equal
Breaks(s, i) ==
    /\ s[i + 1] = ")"
    /\ BraceCloseCount(s, i + 1) = BraceOpenCount(s, i + 1)

\* braceOpenIdx and braceCloseIdx after the loop.  braceOpenIdx is set by
\* the "(" met while braceOpenCount is 0, the first "(" of s, which if the
\* loop breaks lies before the break (the counters are equal and not 0).
BraceIndices(s) ==
    LET Scan(str) ==
            [open  |-> Index(str, "("),
             close |-> First({i \in 0..(Len(str) - 1) : Breaks(str, i)})]
    IN  With(s, Scan)

BraceContentAndRest(s) ==
    LET Cut(idx) ==
            IF idx.open < 0 \/ idx.close < 0
            THEN [content |-> <<>>, rest |-> <<>>, err |-> Err("MalformedBraces", s)]
            ELSE [content |-> Slice(s, idx.open + 1, idx.close),
                  rest    |-> SliceFrom(s, idx.close),
                  err     |-> NoErr]
    IN  With(BraceIndices(s), Cut)

\* Variant of braceContentAndRestStartingWithOpeningBrace: the rest is left
\* where braceContentAndRest put it, at the closing brace.
BraceContentAndRestStartingAtClosingBrace(s) == BraceContentAndRest(s)

BraceContentAndRestStartingWithOpeningBrace(s) ==
    LET Matched(r) ==
            LET Advance(nextOpeningBraceIdx) ==
                    IF nextOpeningBraceIdx > -1
                    THEN [r EXCEPT !.rest = SliceFrom(r.rest, nextOpeningBraceIdx)]
                    ELSE [r EXCEPT !.rest = <<>>]
            IN  IF r.err # NoErr THEN r ELSE With(Index(r.rest, "("), Advance)
    IN  With(BraceContentAndRest(s), Matched)

\* The index of the first letter of s, or -1
NextLetterIdx(s) ==
    LET Among(str) == First({i - 1 : i \in {j \in 1..Len(str) : IsLetter(str[j])}})
    IN  With(s, Among)

TypeContentAndRestStartingWithLetter(s) ==
    LET Matched(r) ==
            LET Typed(t) ==
                    LET Advance(nextLetterIdx) ==
                            [content |-> t.typ \o <<"(">> \o r.content \o <<")">>,
                             rest    |-> IF nextLetterIdx > -1
                                         THEN SliceFrom(r.rest, nextLetterIdx)
                                         ELSE <<>>,
                             err     |-> NoErr]
                    IN  IF t.err # NoErr THEN [r EXCEPT !.err = t.err]
                        ELSE With(NextLetterIdx(r.rest), Advance)
            IN  IF r.err # NoErr THEN r ELSE With(FindTypeAndLayout(s), Typed)
    IN  With(BraceContentAndRest(s), Matched)

---------------------------------------------------------------------------
(* The geometry values of package geom, as far as decode builds them: the  *)
(* type, the layout and the coordinates (for a collection, its members).   *)

\* the nil geom.T that decode returns with an error
NilGeom == [type |-> "nil", layout |-> "NoLayout", coords |-> <<>>]

\* the nil *geom.GeometryCollection that createGeomCollectionForWkt returns
\* with an error
NilCollection == [type |-> "nilGeometryCollection", layout |-> "NoLayout", coords |-> <<>>]

\* a MustSetCoords that panics
Panic == [type |-> "panic", layout |-> "NoLayout", coords |-> <<>>]

\* geom.NewPointEmpty(l), geom.NewLineString(l), ..., geom.NewGeometryCollection()
New(type, l) == [type |-> type, layout |-> l, coords |-> <<>>]

\* whether every coordinate of a structure nested to the given depth
\* (0: one coordinate) has n ordinates
RECURSIVE HasStride(_, _, _)
HasStride(coords, depth, n) ==
    IF depth = 0 THEN Len(coords) = n
    ELSE \A i \in 1..Len(coords) : HasStride(coords[i], depth - 1, n)

\* g.MustSetCoords(coords): the coordinate assignment, which fails on a
\* coordinate whose length is not the stride of g's layout
MustSetCoords(g, coords, depth) ==
    IF HasStride(coords, depth, Stride(g.layout)) THEN [g EXCEPT !.coords = coords] ELSE Panic

\* gc.MustPush(g)
MustPush(gc, g) == [gc EXCEPT !.coords = Append(gc.coords, g)]

\* c.Equal(l, other): exact ordinate-wise equality
CoordEqual(l, c, other) ==
    /\ Len(c) = Len(other)
    /\ \A i \in 1..Len(c) : c[i] = other[i]

---------------------------------------------------------------------------
(* readCoordsDim1, readCoordsDim2, readCoordsDim3 *)

ReadCoordsDim1(l, wkt0) ==
    LET Matched(b) ==
            LET Parsed(c) ==
                    IF c.err # NoErr THEN [coords |-> <<>>, rest |-> b.rest, err |-> c.err]
                    ELSE [coords |-> c.coords, rest |-> b.rest, err |-> NoErr]
            IN  IF b.err # NoErr THEN [coords |-> <<>>, rest |-> b.rest, err |-> b.err]
                ELSE With(CoordsFromBraceContent(b.content, l), Parsed)
    IN  IF HasSuffix(wkt0, tEmpty) THEN [coords |-> <<>>, rest |-> <<>>, err |-> NoErr]
        ELSE With(BraceContentAndRestStartingWithOpeningBrace(wkt0), Matched)

\* readCoordsDim2 up to its loop: the call returns at once (exit), or the
\* loop starts on content
ReadCoordsDim2Open(wkt0) ==
    LET Matched(b) ==
            IF b.err # NoErr
            THEN [exit |-> TRUE, coords |-> <<>>, content |-> <<>>, rest |-> b.rest,
                  err |-> b.err]
            ELSE [exit |-> FALSE, coords |-> <<>>, content |-> b.content, rest |-> b.rest,
                  err |-> NoErr]
    IN  IF HasSuffix(wkt0, tEmpty)
        THEN [exit |-> TRUE, coords |-> <<>>, content |-> <<>>, rest |-> <<>>, err |-> NoErr]
        ELSE With(BraceContentAndRestStartingWithOpeningBrace(wkt0), Matched)

\* one pass through the loop body of readCoordsDim2
ReadCoordsDim2Iteration(l, contentDim2, coordsDim2) ==
    LET Read(r) ==
            IF r.err # NoErr
            THEN [exit |-> TRUE, coords |-> coordsDim2, content |-> contentDim2,
                  err |-> r.err]
            ELSE [exit |-> r.rest = <<>>, coords |-> Append(coordsDim2, r.coords),
                  content |-> r.rest, err |-> NoErr]
    IN  With(ReadCoordsDim1(l, contentDim2), Read)

RECURSIVE ReadCoordsDim2Loop(_, _, _)
ReadCoordsDim2Loop(l, contentDim2, coordsDim2) ==
    LET Passed(it) == IF it.exit THEN it ELSE ReadCoordsDim2Loop(l, it.content, it.coords)
    IN  With(ReadCoordsDim2Iteration(l, contentDim2, coordsDim2), Passed)

ReadCoordsDim2(l, wkt0) ==
    LET Opened(open) ==
            LET Looped(loop) ==
                    [coords |-> loop.coords, rest |-> open.rest, err |-> loop.err]
            IN  IF open.exit
                THEN [coords |-> open.coords, rest |-> open.rest, err |-> open.err]
                ELSE With(ReadCoordsDim2Loop(l, open.content, <<>>), Looped)
    IN  With(ReadCoordsDim2Open(wkt0), Opened)

ReadCoordsDim3Open(wkt0) ==
    LET Matched(b) ==
            IF b.err # NoErr
            THEN [exit |-> TRUE, coords |-> <<>>, content |-> <<>>, rest |-> b.rest,
                  err |-> b.err]
            ELSE [exit |-> FALSE, coords |-> <<>>, content |-> b.content, rest |-> b.rest,
                  err |-> NoErr]
    IN  IF HasSuffix(wkt0, tEmpty)
        THEN [exit |-> TRUE, coords |-> <<>>, content |-> <<>>, rest |-> <<>>, err |-> NoErr]
        ELSE With(BraceContentAndRestStartingWithOpeningBrace(wkt0), Matched)

\* one pass through the loop body of readCoordsDim3
ReadCoordsDim3Iteration(l, contentDim3, coordsDim3) ==
    LET Read(r) ==
            IF r.err # NoErr
            THEN [exit |-> TRUE, coords |-> coordsDim3, content |-> contentDim3,
                  err |-> r.err]
            ELSE [exit |-> r.rest = <<>>, coords |-> Append(coordsDim3, r.coords),
                  content |-> r.rest, err |-> NoErr]
    IN  With(ReadCoordsDim2(l, contentDim3), Read)

RECURSIVE ReadCoordsDim3Loop(_, _, _)
ReadCoordsDim3Loop(l, contentDim3, coordsDim3) ==
    LET Passed(it) == IF it.exit THEN it ELSE ReadCoordsDim3Loop(l, it.content, it.coords)
    IN  With(ReadCoordsDim3Iteration(l, contentDim3, coordsDim3), Passed)

ReadCoordsDim3(l, wkt0) ==
    LET Opened(open) ==
            LET Looped(loop) ==
                    [coords |-> loop.coords, rest |-> open.rest, err |-> loop.err]
            IN  IF open.exit
                THEN [coords |-> open.coords, rest |-> open.rest, err |-> open.err]
                ELSE With(ReadCoordsDim3Loop(l, open.content, <<>>), Looped)
    IN  With(ReadCoordsDim3Open(wkt0), Opened)

---------------------------------------------------------------------------
(* decode and createGeomCollectionForWkt.  A result is the geometry and    *)
(* the error returned.                                                     *)

Failed(err) == [geom |-> NilGeom, err |-> err]

Ok(g) == [geom |-> g, err |-> NoErr]

\* case tPoint, given what readCoordsDim1 returned
PointOf(l, r) ==
    IF r.err # NoErr THEN Failed(r.err)
    ELSE IF Len(r.coords) > 0 THEN Ok(MustSetCoords(New("Point", l), r.coords[1], 0))
    ELSE Ok(New("Point", l))

\* Variant of case tLineString: first and last coordinate are not compared.
LineStringOfKeyword(l, r) ==
    IF r.err # NoErr THEN Failed(r.err)
    ELSE IF Len(r.coords) = 0 THEN Ok(New("LineString", l))
    ELSE Ok(MustSetCoords(New("LineString", l), r.coords, 1))

\* case tLineString, given what readCoordsDim1 returned
LineStringOf(l, r) ==
    IF r.err # NoErr THEN Failed(r.err)
    ELSE IF Len(r.coords) = 0 THEN Ok(New("LineString", l))
    ELSE IF CoordEqual(l, r.coords[1], r.coords[Len(r.coords)])
    THEN Ok(MustSetCoords(New("LinearRing", l), r.coords, 1))
    ELSE Ok(MustSetCoords(New("LineString", l), r.coords, 1))

\* case tPolygon, given what readCoordsDim2 returned
PolygonOf(l, r) ==
    IF r.err # NoErr THEN Failed(r.err)
    ELSE IF Len(r.coords) > 0 THEN Ok(MustSetCoords(New("Polygon", l), r.coords, 2))
    ELSE Ok(New("Polygon", l))

\* case tMultiPoint, given what readCoordsDim1 returned
MultiPointOf(l, r) ==
    IF r.err # NoErr THEN Failed(r.err)
    ELSE IF Len(r.coords) > 0 THEN Ok(MustSetCoords(New("MultiPoint", l), r.coords, 1))
    ELSE Ok(New("MultiPoint", l))

\* case tMultiLineString, given what readCoordsDim2 returned
MultiLineStringOf(l, r) ==
    IF r.err # NoErr THEN Failed(r.err)
    ELSE IF Len(r.coords) > 0 THEN Ok(MustSetCoords(New("MultiLineString", l), r.coords, 2))
    ELSE Ok(New("MultiLineString", l))

\* case tMultiPolygon, given what readCoordsDim3 returned
MultiPolygonOf(l, r) ==
    IF r.err # NoErr THEN Failed(r.err)
    ELSE IF Len(r.coords) > 0 THEN Ok(MustSetCoords(New("MultiPolygon", l), r.coords, 3))
    ELSE Ok(New("MultiPolygon", l))

\* Variant of the returns of createGeomCollectionForWkt: "return gc, err".
CollectionResultPartial(it) == [geom |-> it.gc, err |-> it.err]

\* what createGeomCollectionForWkt returns when it leaves with the local
\* variables gc and err as given: "return nil, err" or "return gc, nil"
CollectionResult(it) ==
    IF it.err # NoErr THEN [geom |-> NilCollection, err |-> it.err]
    ELSE [geom |-> it.gc, err |-> NoErr]

\* createGeomCollectionForWkt up to its loop
CollectionOpen(wkt0) ==
    LET Matched(b) ==
            IF b.err # NoErr
            THEN [exit |-> TRUE, gc |-> New("GeometryCollection", "NoLayout"),
                  content |-> <<>>, err |-> b.err]
            ELSE [exit |-> FALSE, gc |-> New("GeometryCollection", "NoLayout"),
                  content |-> b.content, err |-> NoErr]
    IN  IF HasSuffix(wkt0, tEmpty)
        THEN [exit |-> TRUE, gc |-> New("GeometryCollection", "NoLayout"),
              content |-> <<>>, err |-> NoErr]
        ELSE With(BraceContentAndRest(wkt0), Matched)

RECURSIVE Decode(_)

\* one pass through the loop body of createGeomCollectionForWkt
CollectionIteration(content0, gc) ==
    LET Child(c) ==
            LET Decoded(g) ==
                    IF g.err # NoErr
                    THEN [exit |-> TRUE, gc |-> gc, content |-> content0, err |-> g.err]
                    ELSE [exit |-> c.rest = <<>>, gc |-> MustPush(gc, g.geom),
                          content |-> c.rest, err |-> NoErr]
            IN  IF c.err # NoErr
                THEN [exit |-> TRUE, gc |-> gc, content |-> content0, err |-> c.err]
                ELSE With(Decode(c.content), Decoded)
    IN  With(TypeContentAndRestStartingWithLetter(content0), Child)

RECURSIVE CollectionLoop(_, _)
CollectionLoop(content0, gc) ==
    LET Passed(it) == IF it.exit THEN it ELSE CollectionLoop(it.content, it.gc)
    IN  With(CollectionIteration(content0, gc), Passed)

CreateGeomCollectionForWkt(wkt0) ==
    LET Opened(open) ==
            IF open.exit THEN CollectionResult(open)
            ELSE With(CollectionLoop(open.content, open.gc), CollectionResult)
    IN  With(CollectionOpen(wkt0), Opened)

Decode(wkt0) ==
    LET Resolve(t) ==
            LET Point(r) == PointOf(t.layout, r)
                LineString(r) == LineStringOf(t.layout, r)
                Polygon(r) == PolygonOf(t.layout, r)
                MultiPoint(r) == MultiPointOf(t.layout, r)
                MultiLineString(r) == MultiLineStringOf(t.layout, r)
                MultiPolygon(r) == MultiPolygonOf(t.layout, r)
            IN  IF t.err # NoErr THEN Failed(t.err)
                ELSE IF t.typ = tPoint THEN With(ReadCoordsDim1(t.layout, wkt0), Point)
                ELSE IF t.typ = tLineString
                THEN With(ReadCoordsDim1(t.layout, wkt0), LineString)
                ELSE IF t.typ = tPolygon THEN With(ReadCoordsDim2(t.layout, wkt0), Polygon)
                ELSE IF t.typ = tMultiPoint
                THEN With(ReadCoordsDim1(t.layout, wkt0), MultiPoint)
                ELSE IF t.typ = tMultiLineString
                THEN With(ReadCoordsDim2(t.layout, wkt0), MultiLineString)
                ELSE IF t.typ = tMultiPolygon
                THEN With(ReadCoordsDim3(t.layout, wkt0), MultiPolygon)
                ELSE IF t.typ = tGeometryCollection THEN CreateGeomCollectionForWkt(wkt0)
                ELSE Failed(Err("UnsupportedType", t.typ))
    IN  With(FindTypeAndLayout(wkt0), Resolve)

---------------------------------------------------------------------------
(* The brace scanner applied to every short string over "(", ")" and one   *)
(* other character.                                                        *)

BraceAlphabet == {"(", ")", "a"}

RECURSIVE StringsUpTo(_, _)
StringsUpTo(alphabet, n) ==
    IF n = 0 THEN {<<>>}
    ELSE LET shorter == StringsUpTo(alphabet, n - 1)
         IN  shorter \cup {<<c>> \o s : c \in alphabet, s \in {t \in shorter : Len(t) = n - 1}}

BraceInputs == StringsUpTo(BraceAlphabet, MaxBraceLen)

InitScan ==
    /\ wkt \in BraceInputs
    /\ layout = "NoLayout"
    /\ typ = <<>>
    /\ pc = "start"
    /\ content = <<>>
    /\ acc = <<>>
    /\ result = [content |-> <<>>, rest |-> <<>>, err |-> NoErr]

MatchBraces ==
    /\ pc = "start"
    /\ result' = BraceContentAndRest(wkt)
    /\ pc' = "done"
    /\ UNCHANGED <<wkt, layout, typ, content, acc>>

MatchBracesThenAdvance ==
    /\ pc = "start"
    /\ result' = BraceContentAndRestStartingWithOpeningBrace(wkt)
    /\ pc' = "advanced"
    /\ UNCHANGED <<wkt, layout, typ, content, acc>>

NextScan == MatchBraces \/ MatchBracesThenAdvance

SpecScan == InitScan /\ [][NextScan]_vars

---------------------------------------------------------------------------
(* The coordinate parser applied to every short content over a digit, a    *)
(* letter, the blank and the comma, and to lists of sample tuples, under   *)
(* every layout.                                                           *)

ContentAlphabet == {"1", "Y", " ", ","}

TupleSamples ==
    { <<"1", " ", "2">>, <<"0", "1", " ", "2">>, <<" ", "1", " ", "2", " ">>,
      <<"1", " ", "2", " ", "3">>, <<"3", " ", "2", " ", "1", " ", "0">>,
      <<"1">>, <<>>, <<"1", " ", "Y">>, <<"Y", " ", "2", " ", "3">>,
      <<"1", " ", " ", "2">>, <<"Y">> }

RECURSIVE Lists(_, _, _)
\* the texts made of 1..n elements of items, joined by sep
Lists(items, sep, n) ==
    IF n = 0 THEN {}
    ELSE items \cup {l \o sep \o x : l \in Lists(items, sep, n - 1), x \in items}

CoordsInputs ==
    StringsUpTo(ContentAlphabet, MaxContentLen) \cup Lists(TupleSamples, <<",">>, MaxTuples)

InitCoords ==
    /\ wkt \in CoordsInputs
    /\ layout \in Layouts
    /\ typ = <<>>
    /\ pc = "start"
    /\ content = <<>>
    /\ acc = <<>>
    /\ result = [coords |-> <<>>, err |-> NoErr]

ParseCoords ==
    /\ pc = "start"
    /\ result' = CoordsFromBraceContent(wkt, layout)
    /\ pc' = "done"
    /\ UNCHANGED <<wkt, layout, typ, content, acc>>

NextCoords == ParseCoords

SpecCoords == InitCoords /\ [][NextCoords]_vars

---------------------------------------------------------------------------
(* The texts decode is applied to: every geometry the grammar allows over  *)
(* small coordinates, within the bounds, and their malformed neighbours.   *)

KeywordsDim1 == {tPoint, tLineString, tMultiPoint}

KeywordsDim2 == {tPolygon, tMultiLineString}

Keywords == KeywordsDim1 \cup KeywordsDim2 \cup {tMultiPolygon, tGeometryCollection}

Modifiers == {<<>>, tZ, tM, tZm}

ModifierStride(m) == IF m = <<>> THEN 2 ELSE IF m = tZm THEN 4 ELSE 3

Braced(body) == <<"(">> \o body \o <<")">>

\* the first k ordinates of a coordinate whose ordinates are all zero but
\* the j-th, which is 1; a zero is written "0", or "00" if wide
RECURSIVE CoordTextOf(_, _, _)
CoordTextOf(k, j, wide) ==
    LET ord == IF j = k THEN <<"1">> ELSE IF wide THEN <<"0", "0">> ELSE <<"0">>
    IN  IF k = 1 THEN ord ELSE CoordTextOf(k - 1, j, wide) \o <<" ">> \o ord

\* the coordinate of k ordinates that are all zero but the j-th, which is
\* 1; j = 0: all written "0"; j = k + 1: all written "00"
CoordText(k, j) == CoordTextOf(k, j, j > k)

CoordTexts(k) == {CoordText(k, j) : j \in 0..(k + 1)}

SmallCoordTexts(k) == {CoordText(k, 0), CoordText(k, 1)}

\* coordinate lists of every dimension, short, with a blank after the comma,
\* and with a token that is no number
SmallLists ==
    UNION {Lists(SmallCoordTexts(k), <<",">>, 2) : k \in 1..4}
        \cup {<<>>, <<"0", " ", "Y">>, <<"0", " ", "0", ",", " ", "1", " ", "0">>,
               <<"0", " ", "0", ",", "Y", " ", "0">>}

EmptyBodies == {tEmpty, <<" ">> \o tEmpty}

InputsDim1 ==
    {k \o m \o b : k \in KeywordsDim1, m \in Modifiers,
                    b \in {Braced(l) : l \in SmallLists} \cup EmptyBodies}
        \cup UNION {{tLineString \o m \o Braced(l) :
                        l \in Lists(CoordTexts(ModifierStride(m)), <<",">>, MaxCoords)} :
                    m \in Modifiers}

\* the parenthesized coordinate lists a Dim2 body is made of
Rings(k) ==
    { Braced(CoordText(k, 0)),
      Braced(CoordText(k, 1) \o <<",">> \o CoordText(k, 0)),
      Braced(CoordText(k, 2) \o <<",">> \o CoordText(k, 0) \o <<",">> \o CoordText(k, 2)) }

BadRings == {Braced(<<"0", " ", "Y">>), Braced(<<"0">>)}

InputsDim2 ==
    UNION {{k \o m \o Braced(b) : k \in KeywordsDim2,
                b \in Lists(Rings(ModifierStride(m)) \cup BadRings, <<",">>, MaxGroups)} :
           m \in Modifiers}
        \cup {k \o m \o b : k \in KeywordsDim2, m \in Modifiers, b \in EmptyBodies}

PolygonBodies(k) ==
    {Braced(b) : b \in Lists({Braced(CoordText(k, 0)),
                              Braced(CoordText(k, 1) \o <<",">> \o CoordText(k, 0))},
                             <<",">>, MaxGroups)}

InputsDim3 ==
    UNION {{tMultiPolygon \o m \o Braced(b) :
                b \in Lists(PolygonBodies(ModifierStride(m)), <<",">>, MaxPolys)} :
           m \in {<<>>, tZm}}
        \cup UNION {{tMultiPolygon \o m \o Braced(b) :
                        b \in Lists({Braced(r) : r \in Rings(ModifierStride(m)) \cup BadRings},
                                    <<",">>, 2)} :
                    m \in Modifiers}
        \cup {tMultiPolygon \o m \o b : m \in Modifiers, b \in EmptyBodies}

\* child geometries that decode on their own
GoodLeafs ==
    { tPoint \o Braced(CoordText(2, 1)),
      tPoint \o tZ \o Braced(CoordText(3, 1)),
      tPoint \o tM \o Braced(CoordText(3, 3)),
      tPoint \o tZm \o Braced(CoordText(4, 4)),
      tPoint \o <<" ">> \o tEmpty,
      tLineString \o Braced(CoordText(2, 0) \o <<",">> \o CoordText(2, 1)),
      tLineString \o Braced(CoordText(2, 0) \o <<",">> \o CoordText(2, 1)
                                \o <<",">> \o CoordText(2, 0)),
      tPolygon \o Braced(Braced(CoordText(2, 0)) \o <<",">> \o Braced(CoordText(2, 2))),
      tMultiPoint \o Braced(CoordText(2, 0) \o <<",">> \o CoordText(2, 1)),
      tMultiLineString \o tZ \o Braced(Braced(CoordText(3, 0)) \o <<",">>
                                          \o Braced(CoordText(3, 3))),
      tMultiPolygon \o Braced(Braced(Braced(CoordText(2, 0))) \o <<",">>
                                \o Braced(Braced(CoordText(2, 1)))),
      tGeometryCollection \o <<" ">> \o tEmpty }

\* child geometries on which decode fails
BadLeafs ==
    { tPoint \o Braced(CoordText(3, 1)),
      tPoint \o Braced(<<"Y", " ", "0">>),
      <<"F", "O", "O">> \o Braced(CoordText(2, 1)),
      tPoint \o <<"(">> \o CoordText(2, 1) }

Leafs == GoodLeafs \cup BadLeafs

Collection(members) == tGeometryCollection \o Braced(members)

NestLeafs ==
    { tPoint \o Braced(CoordText(2, 1)),
      tLineString \o Braced(CoordText(2, 0) \o <<",">> \o CoordText(2, 1)),
      tPoint \o Braced(CoordText(3, 1)) }

\* the collections nested to depth d, with a sibling before or after the
\* nested collection
RECURSIVE Nested(_)
Nested(d) ==
    IF d = 0 THEN NestLeafs
    ELSE LET inner == Nested(d - 1)
             sibling == tPoint \o Braced(CoordText(2, 2))
         IN  {Collection(a) : a \in inner}
                 \cup {Collection(a \o <<",">> \o sibling) : a \in inner}
                 \cup {Collection(sibling \o <<",">> \o a) : a \in inner}

InputsCollection ==
    {Collection(b) : b \in Lists(Leafs, <<",">>, MaxMembers)}
        \cup UNION {Nested(d) : d \in 1..MaxDepth}
        \cup {tGeometryCollection \o m \o b : m \in Modifiers, b \in EmptyBodies}
        \cup {tGeometryCollection \o tZ \o Braced(b) : b \in GoodLeafs}

\* every keyword followed by what may or may not be a layout modifier
ModifierLike ==
    Modifiers \cup {<<"M", "Z">>, <<"Z", "Z">>, <<" ", "Z">>, <<" ", "Z", "M">>, <<"Z", " ", "M">>}

InputsType ==
    {k \o m \o Braced(CoordText(n, 1)) : k \in Keywords, m \in ModifierLike, n \in 2..4}
        \cup { <<>>, <<"F", "O", "O">> \o Braced(CoordText(2, 1)),
               <<"P", "O", "I", "N">>, <<" ">> \o tPoint \o Braced(CoordText(2, 1)),
               <<"X">> \o tPoint \o Braced(CoordText(2, 1)),
               <<"M", "U", "L", "T", "I">> \o Braced(CoordText(2, 1)),
               Braced(CoordText(2, 1)), tZm \o tPoint \o Braced(CoordText(2, 1)) }

WellFormedInputs ==
    InputsDim1 \cup InputsDim2 \cup InputsDim3 \cup InputsCollection \cup InputsType

\* a text cut before its last character: its last brace is not closed
Truncated(inputs) == {SubSeq(t, 1, Len(t) - 1) : t \in {u \in inputs : Len(u) > 0}}

DecodeInputs ==
    WellFormedInputs \cup Truncated(InputsDim2 \cup InputsDim3 \cup InputsCollection)

---------------------------------------------------------------------------
(* decode, step by step: the dispatch, then one step per pass through the  *)
(* sibling loop of the reader decode called.                               *)

InitDecode ==
    /\ wkt \in DecodeInputs
    /\ layout = "NoLayout"
    /\ typ = <<>>
    /\ pc = "start"
    /\ content = <<>>
    /\ acc = <<>>
    /\ result = Failed(NoErr)

Return(r) ==
    /\ result' = r
    /\ pc' = "done"

\* the type and layout are resolved, and the type is t0
Resolved(t, t0) ==
    /\ t.err = NoErr
    /\ t.typ = t0
    /\ typ' = t0
    /\ layout' = t.layout

DecodeUnknownType ==
    /\ pc = "start"
    /\ \E t \in {FindTypeAndLayout(wkt)} :
           /\ t.err # NoErr
           /\ Return(Failed(t.err))
    /\ UNCHANGED <<wkt, layout, typ, content, acc>>

DecodePoint ==
    /\ pc = "start"
    /\ \E t \in {FindTypeAndLayout(wkt)} :
           /\ Resolved(t, tPoint)
           /\ \E r \in {ReadCoordsDim1(t.layout, wkt)} : Return(PointOf(t.layout, r))
    /\ UNCHANGED <<wkt, content, acc>>

DecodeLineString ==
    /\ pc = "start"
    /\ \E t \in {FindTypeAndLayout(wkt)} :
           /\ Resolved(t, tLineString)
           /\ \E r \in {ReadCoordsDim1(t.layout, wkt)} : Return(LineStringOf(t.layout, r))
    /\ UNCHANGED <<wkt, content, acc>>

DecodeMultiPoint ==
    /\ pc = "start"
    /\ \E t \in {FindTypeAndLayout(wkt)} :
           /\ Resolved(t, tMultiPoint)
           /\ \E r \in {ReadCoordsDim1(t.layout, wkt)} : Return(MultiPointOf(t.layout, r))
    /\ UNCHANGED <<wkt, content, acc>>

\* what decode returns from case tPolygon or case tMultiLineString (the
\* case is the resolved type), given what readCoordsDim2 returned
Dim2Of(t0, l, r) == IF t0 = tPolygon THEN PolygonOf(l, r) ELSE MultiLineStringOf(l, r)

\* a reader or createGeomCollectionForWkt is entered: it returns at once
\* with r, or its loop starts
Enter(loop, open, acc0, r) ==
    IF open.exit
    THEN /\ Return(r)
         /\ UNCHANGED <<content, acc>>
    ELSE /\ pc' = loop
         /\ content' = open.content
         /\ acc' = acc0
         /\ UNCHANGED result

\* a pass through the loop is over: the loop goes on, or the call returns r
Pass(it, acc1, r) ==
    /\ content' = it.content
    /\ acc' = acc1
    /\ IF it.exit THEN Return(r) ELSE UNCHANGED <<pc, result>>

DecodePolygon ==
    /\ pc = "start"
    /\ \E t \in {FindTypeAndLayout(wkt)} :
           /\ Resolved(t, tPolygon)
           /\ \E open \in {ReadCoordsDim2Open(wkt)} :
                  Enter("readCoordsDim2", open, <<>>, PolygonOf(t.layout, open))
    /\ UNCHANGED wkt

DecodeMultiLineString ==
    /\ pc = "start"
    /\ \E t \in {FindTypeAndLayout(wkt)} :
           /\ Resolved(t, tMultiLineString)
           /\ \E open \in {ReadCoordsDim2Open(wkt)} :
                  Enter("readCoordsDim2", open, <<>>, MultiLineStringOf(t.layout, open))
    /\ UNCHANGED wkt

\* Variant of the loop of readCoordsDim2: "content = rest" is missing.
ReadCoordsDim2StepKeepingContent ==
    /\ pc = "readCoordsDim2"
    /\ \E it \in {ReadCoordsDim2Iteration(layout, content, acc)} :
           /\ content' = content
           /\ acc' = it.coords
           /\ IF it.exit THEN Return(Dim2Of(typ, layout, it)) ELSE UNCHANGED <<pc, result>>
    /\ UNCHANGED <<wkt, layout, typ>>

ReadCoordsDim2Step ==
    /\ pc = "readCoordsDim2"
    /\ \E it \in {ReadCoordsDim2Iteration(layout, content, acc)} :
           Pass(it, it.coords, Dim2Of(typ, layout, it))
    /\ UNCHANGED <<wkt, layout, typ>>

DecodeMultiPolygon ==
    /\ pc = "start"
    /\ \E t \in {FindTypeAndLayout(wkt)} :
           /\ Resolved(t, tMultiPolygon)
           /\ \E open \in {ReadCoordsDim3Open(wkt)} :
                  Enter("readCoordsDim3", open, <<>>, MultiPolygonOf(t.layout, open))
    /\ UNCHANGED wkt

ReadCoordsDim3Step ==
    /\ pc = "readCoordsDim3"
    /\ \E it \in {ReadCoordsDim3Iteration(layout, content, acc)} :
           Pass(it, it.coords, MultiPolygonOf(layout, it))
    /\ UNCHANGED <<wkt, layout, typ>>

DecodeGeometryCollection ==
    /\ pc = "start"
    /\ \E t \in {FindTypeAndLayout(wkt)} :
           /\ Resolved(t, tGeometryCollection)
           /\ \E open \in {CollectionOpen(wkt)} :
                  Enter("createGeomCollectionForWkt", open, open.gc, CollectionResult(open))
    /\ UNCHANGED wkt

CollectionStep ==
    /\ pc = "createGeomCollectionForWkt"
    /\ \E it \in {CollectionIteration(content, acc)} :
           Pass(it, it.gc, CollectionResult(it))
    /\ UNCHANGED <<wkt, layout, typ>>

Next ==
    \/ DecodeUnknownType
    \/ DecodePoint
    \/ DecodeLineString
    \/ DecodePolygon
    \/ DecodeMultiPoint
    \/ DecodeMultiLineString
    \/ DecodeMultiPolygon
    \/ DecodeGeometryCollection
    \/ ReadCoordsDim2Step
    \/ ReadCoordsDim3Step
    \/ CollectionStep

Spec == InitDecode /\ [][Next]_vars

\* a call, once made, runs on until it returns
LiveSpec == Spec /\ WF_vars(Next)

---------------------------------------------------------------------------
(* What the properties are stated with: the text read the way the grammar  *)
(* reads it, without the readers of decode.go.                             *)

\* the number of "(" not yet closed after the first i characters of s
RefDepth(s, i) ==
    Cardinality({j \in 1..i : s[j] = "("}) - Cardinality({j \in 1..i : s[j] = ")"})

\* the depth-counting scanner: from offset i on, with d braces open, the
\* offset of the ")" that closes the last of them, or -1
RECURSIVE RefScan(_, _, _)
RefScan(s, i, d) ==
    IF i >= Len(s) THEN -1
    ELSE IF s[i + 1] = "(" THEN RefScan(s, i + 1, d + 1)
    ELSE IF s[i + 1] = ")" THEN (IF d = 1 THEN i ELSE RefScan(s, i + 1, d - 1))
    ELSE RefScan(s, i + 1, d)

RefOpen(s) == Index(s, "(")

RefClose(s) == IF RefOpen(s) < 0 THEN -1 ELSE RefScan(s, RefOpen(s) + 1, 1)

\* the pieces of s between its commas outside any brace
RECURSIVE SplitTop(_)
SplitTop(s) ==
    LET commas == {i \in 1..Len(s) : s[i] = "," /\ RefDepth(s, i) = 0}
        Cut(i) == <<SubSeq(s, 1, i - 1)>> \o SplitTop(SubSeq(s, i + 1, Len(s)))
    IN  IF commas = {} THEN <<s>>
        ELSE Cut(CHOOSE i \in commas : \A j \in commas : i <= j)

\* the pieces from the j-th on, joined by commas again
RECURSIVE JoinFrom(_, _)
JoinFrom(pieces, j) ==
    IF j > Len(pieces) THEN <<>>
    ELSE IF j = Len(pieces) THEN pieces[j]
    ELSE pieces[j] \o <<",">> \o JoinFrom(pieces, j + 1)

RefLayout(m) ==
    IF m = tZm THEN "XYZM" ELSE IF m = tM THEN "XYM" ELSE IF m = tZ THEN "XYZ" ELSE "XY"

\* text is keyword k, a modifier or none, and a body in braces
IsBraced(text, k) ==
    /\ \E m \in Modifiers : HasPrefix(text, k \o m \o <<"(">>)
    /\ text[Len(text)] = ")"

RefModifier(text, k) == CHOOSE m \in Modifiers : HasPrefix(text, k \o m \o <<"(">>)

\* the body of such a text
RefBody(text, k) == SubSeq(text, Len(k) + Len(RefModifier(text, k)) + 2, Len(text) - 1)

HasNoBrace(s) == \A i \in 1..Len(s) : s[i] \notin {"(", ")"}

\* g is a coordinate list in braces that parses under layout l
IsCoordGroup(g, l) ==
    /\ Len(g) >= 2
    /\ g[1] = "("
    /\ g[Len(g)] = ")"
    /\ HasNoBrace(SubSeq(g, 2, Len(g) - 1))
    /\ CoordsFromBraceContent(SubSeq(g, 2, Len(g) - 1), l).err = NoErr

GroupCoords(g, l) == CoordsFromBraceContent(SubSeq(g, 2, Len(g) - 1), l).coords

\* g is a list of such groups, itself in braces
IsRingGroup(g, l) ==
    /\ Len(g) >= 2
    /\ g[1] = "("
    /\ g[Len(g)] = ")"
    /\ \A i \in 1..(Len(g) - 2) : RefDepth(g, i + 1) >= 1
    /\ LET rings == SplitTop(SubSeq(g, 2, Len(g) - 1))
       IN  \A j \in 1..Len(rings) : IsCoordGroup(rings[j], l)

RingGroupCoords(g, l) ==
    LET rings == SplitTop(SubSeq(g, 2, Len(g) - 1))
    IN  [j \in 1..Len(rings) |-> GroupCoords(rings[j], l)]

\* two geometries of the same type, layout and coordinates (for a
\* collection: members)
RECURSIVE SameGeometry(_, _)
SameGeometry(a, b) ==
    /\ a.type = b.type
    /\ a.layout = b.layout
    /\ Len(a.coords) = Len(b.coords)
    /\ IF a.type = "GeometryCollection"
       THEN \A i \in 1..Len(a.coords) : SameGeometry(a.coords[i], b.coords[i])
       ELSE a.coords = b.coords

---------------------------------------------------------------------------
(* C8 *)

\* C8: braceContentAndRest agrees with the depth-counting scanner on every
\* string over "(", ")" and another character: it succeeds exactly when the
\* first "(" of the string has a closing ")", the content is what lies
\* strictly between the two and the rest starts at that ")"; otherwise it
\* fails with the malformed-braces error.  A ")" before the first "(" makes
\* no difference.
C8_AgreesWithDepthCounting ==
    pc = "done" =>
        IF RefOpen(wkt) >= 0 /\ RefClose(wkt) >= 0
        THEN /\ result.err = NoErr
             /\ 0 <= RefOpen(wkt) /\ RefOpen(wkt) < RefClose(wkt) /\ RefClose(wkt) < Len(wkt)
             /\ result.content = Slice(wkt, RefOpen(wkt) + 1, RefClose(wkt))
             /\ result.rest = SliceFrom(wkt, RefClose(wkt))
        ELSE /\ result.err = Err("MalformedBraces", wkt)
             /\ result.content = <<>>
             /\ result.rest = <<>>

---------------------------------------------------------------------------
(* C7 *)

\* the tokens of the i-th tuple of content s
RefTokens(s, i) == Split(TrimSpace(Split(s, ",")[i]), " ")

RefBadCount(s, i, k) == Len(RefTokens(s, i)) # k

RefBadNumber(s, i, k) ==
    /\ Len(RefTokens(s, i)) = k
    /\ \E j \in 1..k : ~IsFloat(RefTokens(s, i)[j])

RefFails(s, i, k) == RefBadCount(s, i, k) \/ RefBadNumber(s, i, k)

\* the first tuple that fails; 0 if none does
RefFirstFailing(s, k) ==
    LET failing == {i \in 1..Len(Split(s, ",")) : RefFails(s, i, k)}
    IN  IF failing = {} THEN 0 ELSE CHOOSE i \in failing : \A j \in failing : i <= j

\* the first token of a tuple that is no number
RefFirstBadToken(tokens) ==
    tokens[CHOOSE j \in 1..Len(tokens) :
              ~IsFloat(tokens[j]) /\ \A h \in 1..(j - 1) : IsFloat(tokens[h])]

\* C7: coordsFromBraceContent returns the error of the first tuple, in input
\* order, that fails: dimension mismatch (with the stride and the content)
\* if its token count is not the stride, whether or not its tokens are
\* numbers, and invalid ordinate (with the token) if the count is the stride
\* and a token is no number; when no tuple fails it returns one coordinate
\* per tuple, in input order, holding the numbers of its tokens.
C7_FirstFailingTupleDecides ==
    pc = "done" =>
        LET k == Stride(layout)
            first == RefFirstFailing(wkt, k)
        IN  IF first = 0
            THEN /\ result.err = NoErr
                 /\ Len(result.coords) = Len(Split(wkt, ","))
                 /\ \A i \in 1..Len(result.coords) :
                        result.coords[i] =
                            [j \in 1..k |-> DecimalValue(RefTokens(wkt, i)[j])]
            ELSE /\ result.coords = <<>>
                 /\ IF RefBadCount(wkt, first, k)
                    THEN result.err = [kind |-> "DimensionMismatch", text |-> wkt, dim |-> k]
                    ELSE result.err =
                             Err("InvalidOrdinate", RefFirstBadToken(RefTokens(wkt, first)))

\* a second tuple with a wrong count and a token that is no number, after a
\* first that parses, reports dimension mismatch
C7_WrongCountWithBadToken ==
    /\ pc = "done"
    /\ Len(Split(wkt, ",")) = 2
    /\ ~RefFails(wkt, 1, Stride(layout))
    /\ RefBadCount(wkt, 2, Stride(layout))
    /\ \E j \in 1..Len(RefTokens(wkt, 2)) : ~IsFloat(RefTokens(wkt, 2)[j]) /\ RefTokens(wkt, 2)[j] # <<>>
    /\ result.err.kind = "DimensionMismatch"

---------------------------------------------------------------------------
(* C6 *)

\* C6: once decode has resolved the type, for a text that starts with a
\* keyword K the type is K and the layout is XYZM exactly if the text starts
\* with K and the ZM modifier, XYM exactly if it starts with K and the M
\* modifier, XYZ exactly if it starts with K and the Z modifier but not with
\* K and ZM, and XY exactly if it starts with K and none of them; for a text
\* that starts with no keyword decode has returned the unknown-type error,
\* which carries the text, and no geometry.
C6_TypeAndLayoutResolved ==
    pc # "start" =>
        IF \E k \in Keywords : HasPrefix(wkt, k)
        THEN LET k == CHOOSE k \in Keywords : HasPrefix(wkt, k)
             IN  /\ typ = k
                 /\ layout \in Layouts
                 /\ layout = "XYZM" <=> HasPrefix(wkt, k \o tZm)
                 /\ layout = "XYM" <=> HasPrefix(wkt, k \o tM)
                 /\ layout = "XYZ" <=> HasPrefix(wkt, k \o tZ) /\ ~HasPrefix(wkt, k \o tZm)
                 /\ layout = "XY" <=> \A m \in {tZm, tM, tZ} : ~HasPrefix(wkt, k \o m)
        ELSE /\ pc = "done"
             /\ result = Failed(Err("UnknownType", wkt))

\* a ZM text has been resolved
C6_ZmResolved ==
    /\ pc # "start"
    /\ HasPrefix(wkt, tMultiPolygon \o tZm)
    /\ typ = tMultiPolygon
    /\ layout = "XYZM"

---------------------------------------------------------------------------
(* C1 *)

\* C1: for a LINESTRING text, with any modifier, whose body is a list of
\* n >= 1 coordinates that parses, decode returns all n coordinates in input
\* order, as a LinearRing if the first and the last are equal ordinate by
\* ordinate (n = 1 included) and as a LineString otherwise; for a LINESTRING
\* text that ends in EMPTY it returns a LineString without coordinates.
C1_RingIffClosed ==
    pc = "done" /\ typ = tLineString =>
        /\ HasSuffix(wkt, tEmpty) => result = Ok(New("LineString", layout))
        /\ IsBraced(wkt, tLineString) /\ IsCoordGroup(Braced(RefBody(wkt, tLineString)), layout) =>
               LET coords == GroupCoords(Braced(RefBody(wkt, tLineString)), layout)
                   n == Len(coords)
                   closed == \A i \in 1..Stride(layout) : coords[1][i] = coords[n][i]
               IN  /\ n >= 1
                   /\ result.err = NoErr
                   /\ result.geom.type = IF closed THEN "LinearRing" ELSE "LineString"
                   /\ result.geom.layout = RefLayout(RefModifier(wkt, tLineString))
                   /\ result.geom.coords = coords

\* three coordinates, the last equal to the first and not to the second,
\* have come back as a LinearRing
C1_ClosedOfThree ==
    /\ pc = "done"
    /\ typ = tLineString
    /\ result.err = NoErr
    /\ result.geom.type = "LinearRing"
    /\ Len(result.geom.coords) = 3
    /\ result.geom.coords[1] = result.geom.coords[3]
    /\ result.geom.coords[1] # result.geom.coords[2]

---------------------------------------------------------------------------
(* C2 *)

\* the depth of the coordinate structure of each type
CoordDepth(type) ==
    CASE type = "Point" -> 0
      [] type \in {"LineString", "LinearRing", "MultiPoint"} -> 1
      [] type \in {"Polygon", "MultiLineString"} -> 2
      [] type = "MultiPolygon" -> 3

\* every coordinate of g, and of the members of g at any depth, has the
\* stride of the layout of the geometry that holds it
RECURSIVE WellStrided(_)
WellStrided(g) ==
    IF g.type = "GeometryCollection" THEN \A i \in 1..Len(g.coords) : WellStrided(g.coords[i])
    ELSE /\ g.type \in {"Point", "LineString", "LinearRing", "MultiPoint", "Polygon",
                        "MultiLineString", "MultiPolygon"}
         /\ g.layout \in Layouts
         /\ \/ g.type = "Point" /\ g.coords = <<>>
            \/ HasStride(g.coords, CoordDepth(g.type), Stride(g.layout))

\* C2: when decode succeeds, every coordinate of the result, at every level
\* of its structure and in every member of a collection at any depth, has
\* as many ordinates as the stride of the layout of its geometry; no
\* coordinate assignment has been handed anything else.
C2_StrideEverywhere ==
    pc = "done" /\ result.err = NoErr => WellStrided(result.geom)

\* a collection has come back that holds a collection that holds a point
C2_NestedMemberDecoded ==
    /\ pc = "done"
    /\ result.err = NoErr
    /\ result.geom.type = "GeometryCollection"
    /\ Len(result.geom.coords) = 2
    /\ result.geom.coords[1].type = "GeometryCollection"
    /\ Len(result.geom.coords[1].coords) = 1
    /\ result.geom.coords[1].coords[1].type = "Point"
    /\ Len(result.geom.coords[1].coords[1].coords) = 2

---------------------------------------------------------------------------
(* C3 *)

---------------------------------------------------------------------------
(* C10 *)

\* the text is keyword k, a modifier or none, and in braces m >= 1 groups
\* separated by commas, each a coordinate list in braces that parses
IsDim2Text(text, k, l) ==
    /\ IsBraced(text, k)
    /\ \A j \in 1..Len(SplitTop(RefBody(text, k))) :
           IsCoordGroup(SplitTop(RefBody(text, k))[j], l)

\* the same one level deeper
IsDim3Text(text, l) ==
    /\ IsBraced(text, tMultiPolygon)
    /\ \A j \in 1..Len(SplitTop(RefBody(text, tMultiPolygon))) :
           IsRingGroup(SplitTop(RefBody(text, tMultiPolygon))[j], l)

\* C10: for a POLYGON or MULTILINESTRING of m >= 1 groups readCoordsDim2
\* collects the coordinates of the groups one by one in input order, its
\* text after each being the groups not yet read, from the opening brace of
\* the next one (empty after the last), and decode returns exactly the m
\* sequences; for a MULTIPOLYGON of p >= 1 groups of such lists
\* readCoordsDim3 does the same with the groups of rings, each structure
\* holding exactly the rings of its group.
C10_GroupsInOrder ==
    /\ typ \in KeywordsDim2 /\ pc # "start" /\ IsDim2Text(wkt, typ, layout) =>
           LET groups == SplitTop(RefBody(wkt, typ))
               expected == [j \in 1..Len(groups) |-> GroupCoords(groups[j], layout)]
           IN  /\ pc = "readCoordsDim2" =>
                      /\ Len(acc) < Len(groups)
                      /\ acc = SubSeq(expected, 1, Len(acc))
                      /\ content = JoinFrom(groups, Len(acc) + 1)
                      /\ content[1] = "("
               /\ pc = "done" =>
                      /\ result.err = NoErr
                      /\ result.geom.coords = expected
                      /\ content = <<>>
    /\ typ = tMultiPolygon /\ pc # "start" /\ IsDim3Text(wkt, layout) =>
           LET groups == SplitTop(RefBody(wkt, tMultiPolygon))
               expected == [j \in 1..Len(groups) |-> RingGroupCoords(groups[j], layout)]
           IN  /\ pc = "readCoordsDim3" =>
                      /\ Len(acc) < Len(groups)
                      /\ acc = SubSeq(expected, 1, Len(acc))
                      /\ content = JoinFrom(groups, Len(acc) + 1)
                      /\ content[1] = "("
               /\ pc = "done" =>
                      /\ result.err = NoErr
                      /\ result.geom.coords = expected
                      /\ content = <<>>

\* a MULTIPOLYGON of two polygons, the first of two rings and the second of
\* one, has been decoded
C10_TwoPolygonsDecoded ==
    /\ pc = "done"
    /\ typ = tMultiPolygon
    /\ IsDim3Text(wkt, layout)
    /\ result.err = NoErr
    /\ Len(result.geom.coords) = 2
    /\ Len(result.geom.coords[1]) = 2
    /\ Len(result.geom.coords[2]) = 1

---------------------------------------------------------------------------
(* C9 *)

LoopPositions == {"readCoordsDim2", "readCoordsDim3", "createGeomCollectionForWkt"}

\* a step that stays in a sibling loop leaves as its text a proper, non-empty
\* suffix of the text it had
LoopConsumes ==
    pc \in LoopPositions /\ pc' = pc =>
        /\ content' # <<>>
        /\ Len(content') < Len(content)
        /\ content' = SubSeq(content, Len(content) - Len(content') + 1, Len(content))

\* the text of a sibling loop is shorter than the text decode was called on,
\* and the text a collection member is decoded from is no longer than the
\* text of the loop
MemberTextShorter ==
    /\ pc \in LoopPositions => content # <<>> /\ Len(content) < Len(wkt)
    /\ pc = "createGeomCollectionForWkt" =>
           \A c \in {TypeContentAndRestStartingWithLetter(content)} :
               c.err = NoErr => Len(c.content) <= Len(content)

\* C9: decode returns on every text: each pass through the sibling loop of
\* readCoordsDim2, readCoordsDim3 or createGeomCollectionForWkt either ends
\* the call or leaves a strictly shorter suffix as the text of the next
\* pass; a collection member is decoded from a text strictly shorter than
\* the collection's; and every call reaches its return.
C9_DecodeReturns ==
    /\ []MemberTextShorter
    /\ [][LoopConsumes]_vars
    /\ <>(pc = "done")

\* the loop of createGeomCollectionForWkt is about to decode its second
\* member
C9_SecondPass ==
    /\ pc = "createGeomCollectionForWkt"
    /\ Len(acc.coords) = 1
    /\ content # <<>>
    /\ Len(content) < Len(wkt)

---------------------------------------------------------------------------
(* C4, C5 *)

\* c is a geometry of the grammar with a body in braces that decodes on its
\* own
IsBracedChild(c) ==
    /\ Len(c) > 0
    /\ \E k \in Keywords : IsBraced(c, k)
    /\ Decode(c).err = NoErr

\* c is a geometry of the grammar, with a body in braces or EMPTY, that
\* decodes on its own
IsGrammarChild(c) ==
    /\ Len(c) > 0
    /\ \/ \E k \in Keywords : IsBraced(c, k)
       \/ \E k \in Keywords, m \in Modifiers, b \in EmptyBodies : c = k \o m \o b
    /\ Decode(c).err = NoErr

\* C4: decode of a GEOMETRYCOLLECTION whose body is n >= 1 child geometries
\* with a body in braces, separated by commas, returns a collection of
\* exactly n members, the i-th being what decode returns for the i-th child,
\* nested collections included; decode of a GEOMETRYCOLLECTION text that
\* ends in EMPTY returns a collection of no members.
C4_MembersAreChildrenInOrder ==
    /\ pc = "done" /\ IsBraced(wkt, tGeometryCollection) =>
           LET children == SplitTop(RefBody(wkt, tGeometryCollection))
           IN  (\A i \in 1..Len(children) : IsBracedChild(children[i])) =>
                   /\ result.err = NoErr
                   /\ result.geom.type = "GeometryCollection"
                   /\ Len(result.geom.coords) = Len(children)
                   /\ \A i \in 1..Len(children) :
                          SameGeometry(result.geom.coords[i], Decode(children[i]).geom)
    /\ pc = "done" /\ HasPrefix(wkt, tGeometryCollection) /\ HasSuffix(wkt, tEmpty) =>
           /\ result.err = NoErr
           /\ result.geom.type = "GeometryCollection"
           /\ result.geom.coords = <<>>

\* C5: when the loop of createGeomCollectionForWkt stands before a child
\* geometry of the grammar (any keyword, no modifier or Z, M or ZM, a body
\* in braces or EMPTY), the pass through the loop adds one member, and the
\* member has the type, the layout and the coordinates that decode returns
\* for the text of that child on its own.
C5_MemberIsTheChildDecoded ==
    pc = "createGeomCollectionForWkt" =>
        \A child \in {SplitTop(content)[1]} :
            IsGrammarChild(child) =>
                \A it \in {CollectionIteration(content, acc)} :
                    /\ it.err = NoErr
                    /\ Len(it.gc.coords) = Len(acc.coords) + 1
                    /\ SameGeometry(it.gc.coords[Len(it.gc.coords)], Decode(child).geom)

===========================================================================
